---- MODULE Spec2Model ----
(***************************************************************************)
(* Model of the X-ray pipeline: fetch.py (download, repair, parse,         *)
(* aggregate, watermark filter, locked insert) and draw.py (range query,   *)
(* grouping).  Texts are sequences of one-character strings, so that       *)
(* endswith, slicing, json.loads and the varchar comparisons of the        *)
(* database are computed character by character.                           *)
(***************************************************************************)
EXTENDS Integers, Sequences, FiniteSets, TLC

(***************************************************************************)
(* Python str helpers                                                      *)
(***************************************************************************)

\* str.endswith(suffix)
endswith(text, suffix) ==
    /\ Len(text) >= Len(suffix)
    /\ SubSeq(text, Len(text) - Len(suffix) + 1, Len(text)) = suffix

\* Python's None where a text is expected: no text is made of a
\* four-character element, so it differs from every text.
None == <<"None">>

Q == "\""

(***************************************************************************)
(* fetch.py 108-116: "fix common problems"                                 *)
(***************************************************************************)

\* the repair with the first case slicing three characters off, not four
FixSliceThree(text) ==
    IF endswith(text, <<",", " ", "{", Q>>)
    THEN SubSeq(text, 1, Len(text) - 3) \o <<"]">>
    ELSE IF endswith(text, <<"m", Q>>)
    THEN text \o <<"}", "]">>
    ELSE IF endswith(text, <<Q, "}", ",">>)
    THEN SubSeq(text, 1, Len(text) - 1) \o <<"]">>
    ELSE IF endswith(text, <<Q, "}">>)
    THEN text \o <<"]">>
    ELSE text

FixCommonProblems(text) ==
    IF endswith(text, <<",", " ", "{", Q>>)
    THEN SubSeq(text, 1, Len(text) - 4) \o <<"]">>
    ELSE IF endswith(text, <<"m", Q>>)
    THEN text \o <<"}", "]">>
    ELSE IF endswith(text, <<Q, "}", ",">>)
    THEN SubSeq(text, 1, Len(text) - 1) \o <<"]">>
    ELSE IF endswith(text, <<Q, "}">>)
    THEN text \o <<"]">>
    ELSE text

(***************************************************************************)
(* json.loads over the characters the upstream documents use: arrays,      *)
(* objects, strings without escapes, non-negative integers, blanks.        *)
(* A parse result is [ok, val, pos]; a value is [type, val].               *)
(***************************************************************************)

Digits == <<"0", "1", "2", "3", "4", "5", "6", "7", "8", "9">>

IsDigit(c) == \E k \in 1..10 : Digits[k] = c

DigitVal(c) == (CHOOSE k \in 1..10 : Digits[k] = c) - 1

Fail == [ok |-> FALSE, val |-> [type |-> "None", val |-> 0], pos |-> 0]

RECURSIVE SkipWs(_, _)
SkipWs(s, i) ==
    IF i <= Len(s) /\ s[i] = " " THEN SkipWs(s, i + 1) ELSE i

RECURSIVE StringEnd(_, _)
\* index of the closing quote at or after i, 0 when the string never closes
StringEnd(s, i) ==
    IF i > Len(s) THEN 0
    ELSE IF s[i] = Q THEN i
    ELSE StringEnd(s, i + 1)

ParseString(s, i) ==
    IF i > Len(s) \/ s[i] # Q THEN Fail
    ELSE LET j == StringEnd(s, i + 1)
         IN  IF j = 0 THEN Fail
             ELSE [ok |-> TRUE,
                   val |-> [type |-> "string", val |-> SubSeq(s, i + 1, j - 1)],
                   pos |-> j + 1]

RECURSIVE NumberEnd(_, _)
NumberEnd(s, i) ==
    IF i <= Len(s) /\ IsDigit(s[i]) THEN NumberEnd(s, i + 1) ELSE i

RECURSIVE NumberVal(_, _, _)
NumberVal(s, i, j) ==
    IF j < i THEN 0 ELSE 10 * NumberVal(s, i, j - 1) + DigitVal(s[j])

\* JSON allows no leading zero: "0" ends the number
ParseNumber(s, i) ==
    IF i > Len(s) \/ ~IsDigit(s[i]) THEN Fail
    ELSE LET j == IF s[i] = "0" THEN i + 1 ELSE NumberEnd(s, i)
         IN  [ok |-> TRUE,
              val |-> [type |-> "number", val |-> NumberVal(s, i, j - 1)],
              pos |-> j]

RECURSIVE ParseValue(_, _)
RECURSIVE ParseElements(_, _, _)
RECURSIVE ParseMembers(_, _, _)

\* after "[" and at least one element position: value (, value)* ]
ParseElements(s, i, acc) ==
    LET v == ParseValue(s, SkipWs(s, i))
    IN  IF ~v.ok THEN Fail
        ELSE LET k == SkipWs(s, v.pos)
             IN  IF k > Len(s) THEN Fail
                 ELSE IF s[k] = "]"
                 THEN [ok |-> TRUE,
                       val |-> [type |-> "array", val |-> Append(acc, v.val)],
                       pos |-> k + 1]
                 ELSE IF s[k] = ","
                 THEN ParseElements(s, k + 1, Append(acc, v.val))
                 ELSE Fail

\* after "{" and at least one member position: string : value (, ...)* }
\* a repeated key keeps its last value, as a Python dict does
ParseMembers(s, i, acc) ==
    LET key == ParseString(s, SkipWs(s, i))
    IN  IF ~key.ok THEN Fail
        ELSE LET c == SkipWs(s, key.pos)
             IN  IF c > Len(s) \/ s[c] # ":" THEN Fail
                 ELSE LET v == ParseValue(s, SkipWs(s, c + 1))
                      IN  IF ~v.ok THEN Fail
                          ELSE LET k   == SkipWs(s, v.pos)
                                   obj == [x \in DOMAIN acc \cup {key.val.val} |->
                                              IF x = key.val.val THEN v.val ELSE acc[x]]
                               IN  IF k > Len(s) THEN Fail
                                   ELSE IF s[k] = "}"
                                   THEN [ok |-> TRUE,
                                         val |-> [type |-> "object", val |-> obj],
                                         pos |-> k + 1]
                                   ELSE IF s[k] = ","
                                   THEN ParseMembers(s, k + 1, obj)
                                   ELSE Fail

ParseValue(s, i) ==
    IF i > Len(s) THEN Fail
    ELSE IF s[i] = "["
    THEN LET k == SkipWs(s, i + 1)
         IN  IF k <= Len(s) /\ s[k] = "]"
             THEN [ok |-> TRUE, val |-> [type |-> "array", val |-> <<>>], pos |-> k + 1]
             ELSE ParseElements(s, i + 1, <<>>)
    ELSE IF s[i] = "{"
    THEN LET k == SkipWs(s, i + 1)
         IN  IF k <= Len(s) /\ s[k] = "}"
             THEN [ok |-> TRUE, val |-> [type |-> "object", val |-> <<>>], pos |-> k + 1]
             ELSE ParseMembers(s, i + 1, <<>>)
    ELSE IF s[i] = Q THEN ParseString(s, i)
    ELSE ParseNumber(s, i)

\* json.loads(text): the whole text is one value; ok = FALSE is the
\* exception json.loads raises
loads(text) ==
    LET v == ParseValue(text, SkipWs(text, 1))
    IN  IF v.ok /\ SkipWs(text, v.pos) = Len(text) + 1 THEN v ELSE Fail

(***************************************************************************)
(* Timestamps.  Every timestamp of the model lies on one day with minutes  *)
(* and seconds 00, and its text is written without the parts all of them   *)
(* share: "2024-01-01T01:00:00Z" is <<"0","1","Z">>, the hour followed by  *)
(* the zone.  Two such texts compare as the full texts do.                 *)
(***************************************************************************)

\* the characters of a timestamp in code point order (varchar comparison)
CharOrder == <<"+", "-", "0", "1", "2", "3", "4", "5", "6", "7", "8", "9", ":", "Z">>

Code(c) == CHOOSE k \in 1..Len(CharOrder) : CharOrder[k] = c

RECURSIVE StrLeq(_, _)
\* a <= b on varchar values
StrLeq(a, b) ==
    IF a = <<>> THEN TRUE
    ELSE IF b = <<>> THEN FALSE
    ELSE IF Code(a[1]) < Code(b[1]) THEN TRUE
    ELSE IF Code(a[1]) > Code(b[1]) THEN FALSE
    ELSE StrLeq(Tail(a), Tail(b))

\* max(datetime) over a non-empty set of varchar values
StrMax(S) == CHOOSE a \in S : \A b \in S : StrLeq(b, a)

\* the %z directive: Z, +HHMM, -HHMM, +HH:MM, -HH:MM; offset in minutes
ParseZone(z) ==
    LET d == IF Len(z) = 6 /\ z[4] = ":"
             THEN <<z[1], z[2], z[3], z[5], z[6]>>
             ELSE z
    IN  IF z = <<"Z">> THEN [ok |-> TRUE, val |-> 0]
        ELSE IF /\ Len(d) = 5
                /\ d[1] \in {"+", "-"}
                /\ \A k \in 2..5 : IsDigit(d[k])
                /\ DigitVal(d[4]) <= 5
        THEN [ok |-> TRUE,
              val |-> (IF d[1] = "-" THEN -1 ELSE 1)
                      * (60 * (10 * DigitVal(d[2]) + DigitVal(d[3]))
                         + 10 * DigitVal(d[4]) + DigitVal(d[5]))]
        ELSE [ok |-> FALSE, val |-> 0]

\* datetime.strptime(text, '%Y-%m-%dT%H:%M:%S%z'): the instant, in minutes
\* since the day's midnight UTC; ok = FALSE is the ValueError
strptime(text) ==
    IF /\ Len(text) >= 3
       /\ IsDigit(text[1]) /\ IsDigit(text[2])
       /\ 10 * DigitVal(text[1]) + DigitVal(text[2]) <= 23
    THEN LET z == ParseZone(SubSeq(text, 3, Len(text)))
         IN  [ok |-> z.ok,
              val |-> 60 * (10 * DigitVal(text[1]) + DigitVal(text[2])) - z.val]
    ELSE [ok |-> FALSE, val |-> 0]

\* strptime('1900-01-01T00:00:00Z', ...) relative to 2024-01-01T00:00:00Z,
\* in minutes: 45290 days earlier
Sentinel1900 == -65217600

(***************************************************************************)
(* Field names of the upstream objects and of the table's columns          *)
(***************************************************************************)

time_tag == <<"t", "i", "m", "e", "_", "t", "a", "g">>

satellite == <<"s", "a", "t", "e", "l", "l", "i", "t", "e">>

energy == <<"e", "n", "e", "r", "g", "y">>

flux == <<"f", "l", "u", "x">>

corrected_flux == <<"c", "o", "r", "r", "e", "c", "t", "e", "d", "_", "f", "l", "u", "x">>

observed_flux == <<"o", "b", "s", "e", "r", "v", "e", "d", "_", "f", "l", "u", "x">>

electron_correction == <<"e", "l", "e", "c", "t", "r", "o", "n", "_", "c", "o", "r", "r", "e", "c", "t", "i", "o", "n">>

(***************************************************************************)
(* The upstream service: documents it publishes and the texts a download   *)
(* can return (whole, or cut short as the service sometimes does).         *)
(***************************************************************************)

RECURSIVE NumText(_)
NumText(n) ==
    IF n < 10 THEN <<Digits[n + 1]>>
    ELSE NumText(n \div 10) \o <<Digits[(n % 10) + 1]>>

HourText(h) == <<Digits[(h \div 10) + 1], Digits[(h % 10) + 1], "Z">>

Quoted(s) == <<Q>> \o s \o <<Q>>

Member(key, valueText) == Quoted(key) \o <<":", " ">> \o valueText

\* one reading as the service writes it; energy is its last member.
\* tagged = FALSE: the object comes without its time_tag member
ObjectText(r) ==
    <<"{">>
    \o (IF r.tagged THEN Member(time_tag, Quoted(HourText(r.t))) \o <<",", " ">>
        ELSE <<>>)
    \o Member(satellite, NumText(r.sat)) \o <<",", " ">>
    \o Member(flux, NumText(r.f)) \o <<",", " ">>
    \o Member(observed_flux, NumText(r.obs)) \o <<",", " ">>
    \o Member(electron_correction, NumText(r.corr)) \o <<",", " ">>
    \o Member(energy, Quoted(r.nrj))
    \o <<"}">>

RECURSIVE ObjectsText(_)
\* the objects of a document separated by ", ", without the brackets
ObjectsText(doc) ==
    IF doc = <<>> THEN <<>>
    ELSE IF Len(doc) = 1 THEN ObjectText(doc[1])
    ELSE ObjectsText(SubSeq(doc, 1, Len(doc) - 1)) \o <<",", " ">> \o ObjectText(doc[Len(doc)])

DocText(doc) == <<"[">> \o ObjectsText(doc) \o <<"]">>

\* the value json.loads gives for one whole reading
ObjectValue(r) ==
    LET keys == (IF r.tagged THEN {time_tag} ELSE {})
                \cup {satellite, flux, observed_flux, electron_correction, energy}
    IN  [type |-> "object",
         val |-> [k \in keys |->
                    IF k = time_tag THEN [type |-> "string", val |-> HourText(r.t)]
                    ELSE IF k = satellite THEN [type |-> "number", val |-> r.sat]
                    ELSE IF k = flux THEN [type |-> "number", val |-> r.f]
                    ELSE IF k = observed_flux THEN [type |-> "number", val |-> r.obs]
                    ELSE IF k = electron_correction THEN [type |-> "number", val |-> r.corr]
                    ELSE [type |-> "string", val |-> r.nrj]]]

DocValue(doc) == [type |-> "array", val |-> [k \in 1..Len(doc) |-> ObjectValue(doc[k])]]

\* the two energy channels and the satellites of the published readings
Energies == {<<"4", "n", "m">>, <<"8", "n", "m">>}

Long == <<"8", "n", "m">>

Short == <<"4", "n", "m">>

\* latest hour the service has published in the documents of the model
MaxHour == 2

Reading(h, sat, nrj, f) ==
    [t |-> h, sat |-> sat, nrj |-> nrj, f |-> f, obs |-> f + 1, corr |-> 1,
     tagged |-> TRUE]

\* the readings of hours 1..h of satellite 16, long channel, oldest first
RECURSIVE Window(_)
Window(h) ==
    IF h = 0 THEN <<>> ELSE Append(Window(h - 1), Reading(h, 16, Long, 3))

\* the same hours newest first, with revised flux values
RECURSIVE Revised(_)
Revised(h) ==
    IF h = 0 THEN <<>> ELSE <<Reading(h, 16, Long, 5)>> \o Revised(h - 1)

\* a document whose first object has no time_tag
Untagged == <<[Reading(1, 16, Long, 3) EXCEPT !.tagged = FALSE], Reading(2, 16, Long, 3)>>

\* the short channel of the same satellite
Other == <<Reading(1, 16, Short, 7)>>

\* requests.get raised: there is no text
ConnError == <<"ConnectionError">>

\* a whole text cut after its first n characters
Cut(text, n) == SubSeq(text, 1, n)

\* the length of a document's text up to the "{" of its last object
HeadLen(doc) == Len(DocText(doc)) - 1 - Len(ObjectText(doc[Len(doc)]))

\* a document of at least two readings cut short after `, {"` of its last
\* object
CutAfterOpen(doc) == Cut(DocText(doc), HeadLen(doc) + 2)

\* the same document cut short inside the first key of its last object
CutInKey(doc) == Cut(DocText(doc), HeadLen(doc) + 6)

\* --url of each invocation (81-85)
Urls == [f1 |-> <<"primary", "secondary">>, f2 |-> <<"secondary">>]

\* what a download of the primary URL can return
PrimaryResponses ==
    {ConnError, <<>>, DocText(<<>>), DocText(Untagged),
     CutAfterOpen(Window(MaxHour)), CutInKey(Window(MaxHour))}
    \cup {DocText(Window(h)) : h \in 1..MaxHour}

\* what a download of the secondary URL can return
SecondaryResponses ==
    {ConnError, DocText(Revised(MaxHour)), CutAfterOpen(Revised(MaxHour)),
     DocText(Other)}

\* what the downloads of one invocation can return, per URL of its list
ServedChoices ==
    [f1 |-> {<<a, b>> : a \in PrimaryResponses, b \in SecondaryResponses},
     f2 |-> {<<b>> : b \in SecondaryResponses}]

(***************************************************************************)
(* fetch.py: the steps of one invocation as functions of its data          *)
(***************************************************************************)

NoneValue == [type |-> "None", val |-> 0]

\* needle in haystack, both str
IsSubstring(needle, haystack) ==
    \E i \in 1..(Len(haystack) - Len(needle) + 1) :
        SubSeq(haystack, i, i + Len(needle) - 1) = needle

\* 144-150: what the validation loop finds for one source:
\* "absent" (None), "raise" (jsons[i][0] or the `in` test raises),
\* "no_tag" or "ok"
FirstItemCheck(json) ==
    IF json.type = "None" THEN "absent"
    ELSE IF json.type = "array"
    THEN IF Len(json.val) = 0 THEN "raise"
         ELSE LET first == json.val[1]
              IN  IF first.type = "object"
                  THEN IF time_tag \in DOMAIN first.val THEN "ok" ELSE "no_tag"
                  ELSE IF first.type = "array"
                  THEN IF \E k \in 1..Len(first.val) :
                              first.val[k].type = "string" /\ first.val[k].val = time_tag
                       THEN "ok" ELSE "no_tag"
                  ELSE IF first.type = "string"
                  THEN IF IsSubstring(time_tag, first.val) THEN "ok" ELSE "no_tag"
                  ELSE "raise"
    ELSE IF json.type = "string"
    THEN IF Len(json.val) = 0 THEN "raise" ELSE "no_tag"
    ELSE "raise"

\* 5th-from-last loop, 132-141: texts to jsons
ParseTexts(txts) ==
    [i \in 1..Len(txts) |->
        IF txts[i] = None THEN NoneValue
        ELSE LET v == loads(txts[i]) IN IF v.ok THEN v.val ELSE NoneValue]

\* 161-164 for one item: the item with flux renamed to corrected_flux;
\* ok = FALSE when a subscript raises
RenameFlux(item) ==
    IF /\ item.type = "object"
       /\ {satellite, energy, flux} \subseteq DOMAIN item.val
       /\ item.val[satellite].type \in {"number", "string"}
       /\ item.val[energy].type \in {"number", "string"}
    THEN [ok |-> TRUE,
          val |-> [k \in (DOMAIN item.val \ {flux}) \cup {corrected_flux} |->
                     IF k = corrected_flux THEN item.val[flux] ELSE item.val[k]]]
    ELSE [ok |-> FALSE, val |-> <<>>]

RECURSIVE AggregateItems(_, _)
\* 160-165 over the items of one source, appended to acc
AggregateItems(items, acc) ==
    IF ~acc.ok \/ items = <<>> THEN acc
    ELSE LET d == RenameFlux(Head(items))
         IN  AggregateItems(Tail(items),
                            [ok |-> d.ok,
                             val |-> IF d.ok THEN Append(acc.val, d.val) ELSE acc.val])

RECURSIVE AggregateSources(_, _)
\* 159-165: `for json in jsons` runs over every source, the absent
\* ones (None is not iterable) and the ones without time_tag included
AggregateSources(jsns, acc) ==
    IF ~acc.ok \/ jsns = <<>> THEN acc
    ELSE LET json == Head(jsns)
         IN  IF json.type = "array"
             THEN AggregateSources(Tail(jsns), AggregateItems(json.val, acc))
             ELSE IF json.type = "object" /\ DOMAIN json.val = {}
             THEN AggregateSources(Tail(jsns), acc)
             ELSE [ok |-> FALSE, val |-> acc.val]

\* 182-183: select max(datetime) ... where satellite = sat and energy = nrj
SelectMax(table, sat, nrj) ==
    LET S == {r.datetime : r \in {x \in table : x.satellite = sat /\ x.energy = nrj}}
    IN  IF S = {} THEN None ELSE StrMax(S)

\* 184-187: the watermark of one pair; ok = FALSE when strptime raises
Watermark(table, sat, nrj) ==
    LET result == SelectMax(table, sat, nrj)
    IN  IF result = None THEN [ok |-> TRUE, val |-> Sentinel1900]
        ELSE strptime(result)

\* 191: the test of one item; "raise" when a subscript or strptime raises
IsNew(d, latest) ==
    IF /\ time_tag \in DOMAIN d
       /\ d[time_tag].type = "string"
       /\ strptime(d[time_tag].val).ok
    THEN IF strptime(d[time_tag].val).val > latest[<<d[satellite].val, d[energy].val>>]
         THEN "new" ELSE "old"
    ELSE "raise"

\* a filter that keeps every item, whatever the watermarks
FilterNothing(dat, latest) == [ok |-> TRUE, val |-> dat]

RECURSIVE FilterNew(_, _)
\* 189-192
FilterNew(dat, latest) ==
    IF dat = <<>> THEN [ok |-> TRUE, val |-> <<>>]
    ELSE LET rest == FilterNew(Tail(dat), latest)
             verdict == IsNew(Head(dat), latest)
         IN  IF verdict = "raise" THEN [ok |-> FALSE, val |-> <<>>]
             ELSE [ok |-> rest.ok,
                   val |-> IF verdict = "new" THEN <<Head(dat)>> \o rest.val ELSE rest.val]

Columns == {time_tag, satellite, energy, corrected_flux, observed_flux, electron_correction}

\* 203: the parameters of the insert statement for one item
RowOf(d) ==
    [datetime |-> d[time_tag].val, satellite |-> d[satellite].val,
     energy |-> d[energy].val, corrected_flux |-> d[corrected_flux].val,
     observed_flux |-> d[observed_flux].val,
     electron_correction |-> d[electron_correction].val]

SameKey(a, b) ==
    a.datetime = b.datetime /\ a.satellite = b.satellite /\ a.energy = b.energy

\* an insert without a primary key: a conflicting row is added as well
InsertRowNoKey(table, row) == table \cup {row}

\* insert ... on conflict (datetime, satellite, energy) do update
InsertRowUpdate(table, row) == {r \in table : ~SameKey(r, row)} \cup {row}

\* insert ... on conflict (datetime, satellite, energy) do nothing
InsertRow(table, row) ==
    IF \E r \in table : SameKey(r, row) THEN table ELSE table \cup {row}

RECURSIVE InsertAll(_, _)
\* 202-204: the insert loop over new_data, in order
InsertAll(table, rows) ==
    IF rows = <<>> THEN table
    ELSE InsertAll(InsertRow(table, RowOf(Head(rows))), Tail(rows))

\* a lock statement that never fails
LockAlways(holder) == TRUE

\* lock table ... in exclusive mode nowait: granted when nobody holds it
LockGranted(holder) == holder = "none"

(***************************************************************************)
(* State.  Two fetcher invocations run side by side (f1 with the default   *)
(* two URLs, f2 with --url set to the secondary one), next to a session    *)
(* that may hold a lock on the table.                                      *)
(***************************************************************************)

VARIABLES
    pc,            \* where each fetcher process is
    connection,    \* "none", "open" (psycopg2.connect returned), "closed" (connection.close())
    served,        \* what the service returns to this invocation, per URL
    texts, jsons, data, satellites, energies, latest_data, new_data, inserted,
    store,         \* the rows of the table
    lock,          \* who holds a lock on the table: "none", a fetcher, "ext"
    rerun,         \* this invocation repeats a committed one on unchanged upstream data
    runs,          \* invocations started so far
    draw_pc, draw_args, draw_result, draw_data,     \* draw.py
    fix_pc, fix_in, fix_out                         \* the repair step on its own

fetch_vars == <<pc, connection, served, texts, jsons, data, satellites, energies,
                latest_data, new_data, inserted, store, lock, rerun, runs>>

draw_vars == <<draw_pc, draw_args, draw_result, draw_data>>

fix_vars == <<fix_pc, fix_in, fix_out>>

vars == <<fetch_vars, draw_vars, fix_vars>>

\* what the fetcher never touches
beside_fetch == <<draw_vars, fix_vars>>

Procs == {"f1", "f2"}

\* invocations started in one behaviour
MaxRuns == 2

Terminal == {"done", "exit_no_connection", "exit_no_data", "exit_no_json",
             "exit_locked", "crashed"}

\* no fetcher has been started
FetchIdle ==
    /\ pc = [p \in Procs |-> "idle"]
    /\ connection = [p \in Procs |-> "none"]
    /\ served = [p \in Procs |-> <<>>]
    /\ texts = [p \in Procs |-> <<>>]
    /\ jsons = [p \in Procs |-> <<>>]
    /\ data = [p \in Procs |-> <<>>]
    /\ satellites = [p \in Procs |-> {}]
    /\ energies = [p \in Procs |-> {}]
    /\ latest_data = [p \in Procs |-> <<>>]
    /\ new_data = [p \in Procs |-> <<>>]
    /\ inserted = [p \in Procs |-> 0]
    /\ lock = "none"
    /\ rerun = [p \in Procs |-> FALSE]
    /\ runs = 0

DrawIdle ==
    /\ draw_pc = "off"
    /\ draw_args = [start |-> <<>>, end |-> <<>>]
    /\ draw_result = {}
    /\ draw_data = <<>>

FixIdle == fix_pc = "off" /\ fix_in = <<>> /\ fix_out = <<>>

\* the table does not exist yet
Init == FetchIdle /\ store = {} /\ DrawIdle /\ FixIdle

\* a new process: nothing of an earlier invocation is left but the table
Fresh(p, again) ==
    /\ pc' = [pc EXCEPT ![p] = "download"]
    /\ connection' = [connection EXCEPT ![p] = "none"]
    /\ served' = [served EXCEPT ![p] = IF again THEN served[p] ELSE <<>>]
    /\ texts' = [texts EXCEPT ![p] = <<>>]
    /\ jsons' = [jsons EXCEPT ![p] = <<>>]
    /\ data' = [data EXCEPT ![p] = <<>>]
    /\ satellites' = [satellites EXCEPT ![p] = {}]
    /\ energies' = [energies EXCEPT ![p] = {}]
    /\ latest_data' = [latest_data EXCEPT ![p] = <<>>]
    /\ new_data' = [new_data EXCEPT ![p] = <<>>]
    /\ inserted' = [inserted EXCEPT ![p] = 0]
    /\ rerun' = [rerun EXCEPT ![p] = again]
    /\ runs' = runs + 1
    /\ UNCHANGED <<store, lock, beside_fetch>>

\* the fetcher is started
Start(p) ==
    /\ pc[p] \in {"idle"} \cup Terminal
    /\ runs < MaxRuns
    /\ Fresh(p, FALSE)

\* the fetcher is started again after a run that committed, and the
\* service returns what it returned to that run
Rerun(p) ==
    /\ pc[p] = "done"
    /\ runs < MaxRuns
    /\ Fresh(p, TRUE)

\* 88-130: connect to the database, download every URL, repair, leave
\* when nothing came
Download(p) ==
    /\ pc[p] = "download"
    /\ \/ /\ pc' = [pc EXCEPT ![p] = "exit_no_connection"]
          /\ UNCHANGED <<connection, served, texts>>
       \/ /\ connection' = [connection EXCEPT ![p] = "open"]
          /\ \E resp \in ServedChoices[p] :
                /\ rerun[p] => resp = served[p]
                /\ served' = [served EXCEPT ![p] = resp]
                /\ \E txts \in {[i \in 1..Len(Urls[p]) |->
                                    IF resp[i] = ConnError THEN None
                                    ELSE FixCommonProblems(resp[i])]} :
                      /\ texts' = [texts EXCEPT ![p] = txts]
                      /\ pc' = [pc EXCEPT ![p] =
                                  IF \E i \in 1..Len(txts) : txts[i] # None /\ Len(txts[i]) # 0
                                  THEN "parse" ELSE "exit_no_data"]
    /\ UNCHANGED <<jsons, data, satellites, energies, latest_data,
                   new_data, inserted, store, lock, rerun, runs, beside_fetch>>

\* 132-172: parse every text, look for time_tag in each first item, make
\* one flat list of the items with the satellites and energies seen;
\* create table if not exists leaves the rows as they are
ParseJson(p) ==
    /\ pc[p] = "parse"
    /\ \E jsns \in {ParseTexts(texts[p])} :
       \E checks \in {[i \in 1..Len(jsns) |-> FirstItemCheck(jsns[i])]} :
          /\ jsons' = [jsons EXCEPT ![p] = jsns]
          /\ IF \E i \in 1..Len(checks) : checks[i] = "raise"
             THEN /\ pc' = [pc EXCEPT ![p] = "crashed"]
                  /\ UNCHANGED <<data, satellites, energies>>
             ELSE IF \A i \in 1..Len(checks) : checks[i] # "ok"
             THEN /\ pc' = [pc EXCEPT ![p] = "exit_no_json"]
                  /\ UNCHANGED <<data, satellites, energies>>
             ELSE \E agg \in {AggregateSources(jsns, [ok |-> TRUE, val |-> <<>>])} :
                  /\ data' = [data EXCEPT ![p] = agg.val]
                  /\ satellites' = [satellites EXCEPT ![p] =
                                      {agg.val[k][satellite].val : k \in 1..Len(agg.val)}]
                  /\ energies' = [energies EXCEPT ![p] =
                                      {agg.val[k][energy].val : k \in 1..Len(agg.val)}]
                  /\ pc' = [pc EXCEPT ![p] = IF agg.ok THEN "watermark" ELSE "crashed"]
    /\ UNCHANGED <<connection, served, texts, latest_data,
                   new_data, inserted, store, lock, rerun, runs, beside_fetch>>

Pairs(p) == satellites[p] \X energies[p]

\* 178-187: one select max(datetime) of the nested loops
ReadWatermark(p) ==
    /\ pc[p] = "watermark"
    /\ \E pair \in Pairs(p) \ DOMAIN latest_data[p] :
          \E w \in {Watermark(store, pair[1], pair[2])} :
              IF w.ok
              THEN /\ latest_data' = [latest_data EXCEPT ![p] =
                                        [x \in DOMAIN latest_data[p] \cup {pair} |->
                                            IF x = pair THEN w.val ELSE latest_data[p][x]]]
                   /\ pc' = pc
              ELSE /\ pc' = [pc EXCEPT ![p] = "crashed"]
                   /\ UNCHANGED latest_data
    /\ UNCHANGED <<connection, served, texts, jsons, data, satellites, energies,
                   new_data, inserted, store, lock, rerun, runs, beside_fetch>>

\* 189-199: keep the items newer than the watermark of their pair, begin
\* transaction, lock table ... nowait; leave when the lock is refused
LockTable(p) ==
    /\ pc[p] = "watermark"
    /\ Pairs(p) \subseteq DOMAIN latest_data[p]
    /\ \E f \in {FilterNew(data[p], latest_data[p])} :
          /\ new_data' = [new_data EXCEPT ![p] = f.val]
          /\ IF ~f.ok
             THEN /\ pc' = [pc EXCEPT ![p] = "crashed"]
                  /\ UNCHANGED lock
             ELSE IF LockGranted(lock)
             THEN /\ lock' = p
                  /\ pc' = [pc EXCEPT ![p] = "insert"]
             ELSE /\ pc' = [pc EXCEPT ![p] = "exit_locked"]
                  /\ UNCHANGED lock
    /\ UNCHANGED <<connection, served, texts, jsons, data, satellites, energies,
                   latest_data, inserted, store, rerun, runs, beside_fetch>>

\* 201-208: insert every new item, commit, close, print the count.
\* A subscript that raises in the loop ends the process: the server
\* rolls the transaction back and the lock goes with it.
InsertCommit(p) ==
    /\ pc[p] = "insert"
    /\ IF \A k \in 1..Len(new_data[p]) : Columns \subseteq DOMAIN new_data[p][k]
       THEN /\ store' = InsertAll(store, new_data[p])
            /\ inserted' = [inserted EXCEPT ![p] = Len(new_data[p])]
            /\ connection' = [connection EXCEPT ![p] = "closed"]
            /\ pc' = [pc EXCEPT ![p] = "done"]
       ELSE /\ pc' = [pc EXCEPT ![p] = "crashed"]
            /\ UNCHANGED <<store, inserted, connection>>
    /\ lock' = IF lock = p THEN "none" ELSE lock
    /\ UNCHANGED <<served, texts, jsons, data, satellites, energies,
                   latest_data, new_data, rerun, runs, beside_fetch>>

\* another session takes a lock on the table, and gives it back
ExtLock ==
    /\ lock = "none"
    /\ lock' = "ext"
    /\ UNCHANGED <<pc, connection, served, texts, jsons, data, satellites, energies,
                   latest_data, new_data, inserted, store, rerun, runs, beside_fetch>>

ExtUnlock ==
    /\ lock = "ext"
    /\ lock' = "none"
    /\ UNCHANGED <<pc, connection, served, texts, jsons, data, satellites, energies,
                   latest_data, new_data, inserted, store, rerun, runs, beside_fetch>>

Next ==
    \/ \E p \in Procs : Start(p)
    \/ \E p \in Procs : Rerun(p)
    \/ \E p \in Procs : Download(p)
    \/ \E p \in Procs : ParseJson(p)
    \/ \E p \in Procs : ReadWatermark(p)
    \/ \E p \in Procs : LockTable(p)
    \/ \E p \in Procs : InsertCommit(p)
    \/ ExtLock
    \/ ExtUnlock

Spec == Init /\ [][Next]_vars

(***************************************************************************)
(* draw.py                                                                 *)
(***************************************************************************)

\* 132: select * ... where datetime >= start and datetime <= end, the
\* comparisons being those of the varchar column
SelectRange(table, start, end) ==
    {r \in table : StrLeq(start, r.datetime) /\ StrLeq(r.datetime, end)}

\* 140, 145: the point of one row, (dt, corrected_flux)
Point(r) == <<strptime(r.datetime).val, r.corrected_flux>>

\* tuple order of list.sort()
PointLeq(a, b) == a[1] < b[1] \/ (a[1] = b[1] /\ a[2] <= b[2])

RECURSIVE SortedPoints(_)
\* 150: the points of a group in ascending order
SortedPoints(rows) ==
    IF rows = {} THEN <<>>
    ELSE LET first == CHOOSE r \in rows : \A x \in rows : PointLeq(Point(r), Point(x))
         IN  <<Point(first)>> \o SortedPoints(rows \ {first})

\* 137-150: rows grouped by satellite and energy, each group sorted
GroupRows(result) ==
    [g \in {<<r.satellite, r.energy>> : r \in result} |->
        SortedPoints({r \in result : r.satellite = g[1] /\ r.energy = g[2]})]

\* 104-113: --start and --end must parse
ValidateArgs ==
    /\ draw_pc = "args"
    /\ draw_pc' = IF strptime(draw_args.start).ok /\ strptime(draw_args.end).ok
                  THEN "query" ELSE "exit_invalid"
    /\ UNCHANGED <<draw_args, draw_result, draw_data, fetch_vars, fix_vars>>

\* 115-135: connect, select the range, close
Query ==
    /\ draw_pc = "query"
    /\ \/ /\ draw_pc' = "exit_no_connection"
          /\ UNCHANGED draw_result
       \/ /\ draw_result' = SelectRange(store, draw_args.start, draw_args.end)
          /\ draw_pc' = "group"
    /\ UNCHANGED <<draw_args, draw_data, fetch_vars, fix_vars>>

\* 137-162: group, sort and plot; strptime raises on a datetime it
\* cannot parse
Plot ==
    /\ draw_pc = "group"
    /\ IF \A r \in draw_result : strptime(r.datetime).ok
       THEN /\ draw_data' = GroupRows(draw_result)
            /\ draw_pc' = "done"
       ELSE /\ draw_pc' = "crashed"
            /\ UNCHANGED draw_data
    /\ UNCHANGED <<draw_args, draw_result, fetch_vars, fix_vars>>

\* the rows the fetcher stores from the documents of the model
StoredRows ==
    {RowOf(RenameFlux(ObjectValue(r)).val) :
        r \in {Window(MaxHour)[k] : k \in 1..MaxHour} \cup {Other[1]}}

\* zones of the --start and --end values tried; <<>> is a naive time
Zones == {<<"Z">>, <<>>, <<"+", "0", "0", "0", "0">>, <<"+", "0", "1", "0", "0">>}

DrawArgs == {SubSeq(HourText(h), 1, 2) \o z : h \in 0..MaxHour, z \in Zones}

DrawInit ==
    /\ FetchIdle
    /\ store \in SUBSET StoredRows
    /\ draw_pc = "args"
    /\ draw_args \in [start : DrawArgs, end : DrawArgs]
    /\ draw_result = {}
    /\ draw_data = <<>>
    /\ FixIdle

DrawNext == ValidateArgs \/ Query \/ Plot

SpecDraw == DrawInit /\ [][DrawNext]_vars

(***************************************************************************)
(* The repair step on texts of its own                                     *)
(***************************************************************************)

\* longest text over FixChars tried
MaxFixLen == 4

FixChars == {",", " ", "{", Q, "m", "}", "]", "n"}

ShortTexts == UNION {[1..n -> FixChars] : n \in 0..MaxFixLen}

\* every text the service can cut a whole document to
Prefixes(text) == {Cut(text, n) : n \in 0..Len(text)}

FixInputs == ShortTexts \cup Prefixes(DocText(Window(MaxHour)))

FixInit ==
    /\ FetchIdle
    /\ store = {}
    /\ DrawIdle
    /\ fix_pc = "input"
    /\ fix_in \in FixInputs
    /\ fix_out = <<>>

\* 107-116: the downloaded text goes through the repair
Fix ==
    /\ fix_pc = "input"
    /\ fix_out' = FixCommonProblems(fix_in)
    /\ fix_pc' = "fixed"
    /\ UNCHANGED <<fix_in, fetch_vars, draw_vars>>

FixNext == Fix

SpecFix == FixInit /\ [][FixNext]_vars

(***************************************************************************)
(* Properties                                                              *)
(***************************************************************************)

\* the natural key of a row
Key(r) == <<r.datetime, r.satellite, r.energy>>

\* the step in which invocation p commits its inserts
Commits(p) == pc[p] = "insert" /\ pc'[p] = "done"

\* the step in which invocation p executes the lock statement
TriesLock(p) == pc[p] = "watermark" /\ pc'[p] \in {"insert", "exit_locked"}

\* no two rows of the table share a natural key
UniqueKeys == \A a, b \in store : Key(a) = Key(b) => a = b

\* C1: the natural key is unique in the table at all times; a run that
\* repeats a committed run on the same upstream data leaves the table as it
\* is; and after a commit every key the run inserted has exactly one row.
C1_IdempotentIngestion ==
    /\ []UniqueKeys
    /\ [][\A p \in Procs :
            Commits(p) =>
                /\ rerun[p] => store' = store
                /\ \A k \in 1..Len(new_data[p]) :
                      Cardinality({r \in store' :
                                      Key(r) = Key(RowOf(new_data[p][k]))}) = 1]_vars

\* a repeated run has committed a batch that is not empty, on a table
\* that holds rows
C1_Witness ==
    \E p \in Procs :
        rerun[p] /\ pc[p] = "done" /\ data[p] # <<>> /\ store # {}

\* a source that parsed to a non-empty array of readings with every field
ValidSource(json) ==
    /\ json.type = "array"
    /\ Len(json.val) > 0
    /\ \A k \in 1..Len(json.val) :
          /\ RenameFlux(json.val[k]).ok
          /\ Columns \subseteq DOMAIN RenameFlux(json.val[k]).val
          /\ IsNew(RenameFlux(json.val[k]).val,
                   [x \in {16} \X Energies |-> Sentinel1900]) = "new"

\* C2: an invocation with two sources, one of them absent (its download or
\* its parse failed) and the other a valid array, does not abort.
C2_PartialSourceResilience ==
    \A p \in Procs :
        (/\ Len(jsons[p]) = 2
         /\ \E i, j \in 1..2 :
               i # j /\ jsons[p][i].type = "None" /\ ValidSource(jsons[p][j]))
        => pc[p] # "crashed"

\* C3: whoever is between lock and commit holds the lock, so at most one
\* invocation is; a lock statement executed while the lock is held ends the
\* invocation at once with the table and the lock as they were and nothing
\* inserted; and an invocation that left that way does nothing further
\* until it is started anew.
C3_ConcurrentWriterExclusion ==
    /\ [](\A p \in Procs : pc[p] = "insert" => lock = p)
    /\ [](Cardinality({p \in Procs : pc[p] = "insert"}) <= 1)
    /\ [][\A p \in Procs :
            (TriesLock(p) /\ lock # "none") =>
                /\ pc'[p] = "exit_locked"
                /\ store' = store
                /\ lock' = lock
                /\ inserted'[p] = 0]_vars
    /\ [][\A p \in Procs :
            (pc[p] = "exit_locked" /\ pc'[p] # "exit_locked") =>
                pc'[p] = "download" /\ runs' = runs + 1]_vars

\* one invocation with items to insert found the lock held by another
\* invocation that is between lock and commit
C3_Witness ==
    \E p, q \in Procs :
        /\ p # q
        /\ pc[p] = "exit_locked"
        /\ new_data[p] # <<>>
        /\ pc[q] = "insert"
        /\ lock = q

\* the latest instant stored for a pair, the 1900 sentinel when none is
MaxInstant(table, pair) ==
    LET S == {strptime(r.datetime).val :
                 r \in {x \in table : x.satellite = pair[1] /\ x.energy = pair[2]}}
    IN  IF S = {} THEN Sentinel1900 ELSE CHOOSE m \in S : \A x \in S : x <= m

\* C4: no step lowers the latest stored instant of any pair, and every
\* row a commit adds is strictly later than the watermark the invocation
\* read for the row's pair.
C4_WatermarkMonotonicity ==
    [][/\ \A pair \in {<<r.satellite, r.energy>> : r \in store} :
             MaxInstant(store', pair) >= MaxInstant(store, pair)
       /\ \A p \in Procs :
             Commits(p) =>
                 \A r \in store' \ store :
                     strptime(r.datetime).val
                         > latest_data[p][<<r.satellite, r.energy>>]]_vars

\* a committed batch mixed items at or below the watermark with newer ones
C4_Witness ==
    \E p \in Procs :
        /\ pc[p] = "done"
        /\ new_data[p] # <<>>
        /\ Len(new_data[p]) < Len(data[p])
        /\ \E pair \in DOMAIN latest_data[p] : latest_data[p][pair] > Sentinel1900

\* the sources whose first item has a time_tag
Accepted(jsns) == SelectSeq(jsns, LAMBDA j : FirstItemCheck(j) = "ok")

\* C5: once the batch is aggregated it holds the items of the accepted
\* sources and no others.
C5_PostParseValidation ==
    \A p \in Procs :
        pc[p] \in {"watermark", "insert", "exit_locked", "done"} =>
            data[p] = AggregateSources(Accepted(jsons[p]),
                                       [ok |-> TRUE, val |-> <<>>]).val

\* C6: an invocation that opened the connection and has left on one of the
\* four exit paths has closed it.
C6_ConnectionRelease ==
    \A p \in Procs :
        pc[p] \in {"exit_no_data", "exit_no_json", "exit_locked", "done"} =>
            connection[p] = "closed"

\* the last k characters of a text of at least k characters
Last(text, k) == SubSeq(text, Len(text) - k + 1, Len(text))

\* text ends with suffix
Ends(text, suffix) == Len(text) >= Len(suffix) /\ Last(text, Len(suffix)) = suffix

\* C7: the repaired text is the input patched by the first of the four
\* suffix cases that matches, and the input itself when none does; a
\* document cut after `, {"` is repaired to a text that parses to the array
\* of its complete objects.
C7_PayloadRepair ==
    fix_pc = "fixed" =>
        LET t == fix_in
            open == Ends(t, <<",", " ", "{", Q>>)
            unit == Ends(t, <<"m", Q>>)
            comma == Ends(t, <<Q, "}", ",">>)
            closed == Ends(t, <<Q, "}">>)
        IN  /\ open => fix_out = SubSeq(t, 1, Len(t) - 4) \o <<"]">>
            /\ (~open /\ unit) => fix_out = t \o <<"}", "]">>
            /\ (~open /\ ~unit /\ comma) => fix_out = SubSeq(t, 1, Len(t) - 1) \o <<"]">>
            /\ (~open /\ ~unit /\ ~comma /\ closed) => fix_out = t \o <<"]">>
            /\ (~open /\ ~unit /\ ~comma /\ ~closed) => fix_out = t
            /\ \A h \in 2..MaxHour :
                  t = CutAfterOpen(Window(h)) =>
                      /\ loads(fix_out).ok
                      /\ loads(fix_out).val = DocValue(Window(h - 1))

\* the repair has run on a document cut after `, {"` of its last object
C7_Witness ==
    /\ fix_pc = "fixed"
    /\ fix_in = CutAfterOpen(Window(MaxHour))
    /\ fix_out = DocText(Window(MaxHour - 1))

\* the rows whose instant lies between the instants of start and end
InRange(table, start, end) ==
    {r \in table : /\ strptime(start).val <= strptime(r.datetime).val
                   /\ strptime(r.datetime).val <= strptime(end).val}

\* C8: the rows the plotter got for accepted --start and --end values are
\* the stored rows whose timestamp lies in the closed interval.
C8_RangeBoundaryInclusion ==
    draw_pc \in {"group", "done", "crashed"} =>
        draw_result = InRange(store, draw_args.start, draw_args.end)

\* C9: no step removes a row or changes a column of one.
C9_NoUpdateOrDelete == [][store \subseteq store']_vars

\* a committed batch held a reading with the key of a stored row and
\* another flux
C9_Witness ==
    \E p \in Procs :
        /\ pc[p] = "done"
        /\ \E k \in 1..Len(data[p]) : \E r \in store :
              /\ Columns \subseteq DOMAIN data[p][k]
              /\ SameKey(RowOf(data[p][k]), r)
              /\ RowOf(data[p][k]).corrected_flux # r.corrected_flux

\* C10: the count an invocation prints is the number of rows its commit
\* added to the table.
C10_ReportedCount ==
    [][\A p \in Procs :
          Commits(p) => inserted'[p] = Cardinality(store') - Cardinality(store)]_vars

====
